---- MODULE Spec2Model ----
(***************************************************************************)
(* Model of the agentrpc node SDK: the AgentRPC facade (register, listen,  *)
(* unlisten) and the PollingAgent it drives (start, stop, runLoop,         *)
(* pollIteration, processCall), together with the coordinator's answers to *)
(* createMachine, listJobs and createJobResult.                            *)
(***************************************************************************)
EXTENDS Naturals, Sequences, FiniteSets, TLC

\* ------------------------------------------------------------------ bounds
MaxAgents == 2       \* agent slots the model provides
MaxPolls == 2        \* listJobs requests per agent
MaxBatch == 2        \* jobs in one listJobs answer
MaxJobs == 2         \* jobs claimed over a run
MaxFailures == 2     \* cap of the consecutive-failure counter
MaxGetJobs == 3      \* getJob requests of one createAndPollJob call

AgentIds == 1..MaxAgents

\* ------------------------------------------------------------ input sets
\* apiSecret strings, already split on "_"
ApiSecrets == { <<"sk", "c1", "r1">>, <<"sk", "", "r1">>, <<"pk", "c1", "r1">> }

Handlers == {"h1", "h2"}

ZodSchema == [kind |-> "zod", accepts |-> "o1"]
JsonSchema == [kind |-> "json", accepts |-> "o2"]

\* arguments of register()
RegInputs ==
  { [name |-> "a", handler |-> "h1", schema |-> ZodSchema,
     description |-> "d1", config |-> "k1"],
    [name |-> "a", handler |-> "h2", schema |-> JsonSchema,
     description |-> "d2", config |-> "k2"],
    [name |-> "a", handler |-> "notfn", schema |-> JsonSchema,
     description |-> "d1", config |-> "k1"] }

\* job messages the coordinator may hand out
JobFunctions == {"a", "zz"}
JobInputs == {"undefined", "null", "array", "prim", "o1", "o2"}
ObjectInputs == {"o1", "o2"}

\* what a handler may return or throw, and how long it may take
ReturnValues == { [value |-> "r1"], [value |-> "r2"] }
ThrownValues == { [kind |-> "error", name |-> "TypeError", message |-> "boom"],
                  [kind |-> "string", value |-> "oops"] }
ElapsedTimes == {7}

NoError == "none"
ErrAlreadyRegistered == "AgentRPCError: Tool name is already registered."
ErrRegisterAfterListen ==
  "AgentRPCError: Tools must be registered before starting the listener."
ErrHandlerNotFunction == "AgentRPCError: handler must be a function."
ErrAlreadyListening == "AgentRPCError: Tools already listening"
ConfigErrors == { ErrAlreadyRegistered, ErrRegisterAfterListen,
                  ErrHandlerNotFunction, ErrAlreadyListening }
InvalidFormatMessage ==
  "Function was called with invalid invalid format. Expected an object."

DEFAULT_RETRY_AFTER_SECONDS == 0

VARIABLES
  facadeClusterId,  \* AgentRPC.clusterId
  toolsRegistry,    \* AgentRPC.toolsRegistry, in insertion order
  pollingAgents,    \* AgentRPC.pollingAgents
  lastCall,         \* the last facade call, the error it threw, and whether
                    \* an agent was already in pollingAgents when it was made
  cj,               \* the createAndPollJob call in progress, if any
  tools,            \* PollingAgent.tools, per agent
  clusterId,        \* PollingAgent.clusterId, per agent
  polling,          \* PollingAgent.polling, per agent
  retryAfter,       \* PollingAgent.retryAfter, per agent
  failureCount,     \* runLoop's failureCount, per agent
  pc,               \* where start()/runLoop() of each agent stands
  startPromise,     \* the promise start() returned, per agent
  iterLog,          \* outcome of every finished loop iteration, per agent
  stopCalled,       \* stop() has been called on the agent
  pollsAtStop,      \* listJobs requests issued when stop() was first called
  machineReqs,      \* createMachine requests each agent has issued
  listJobsReqs,     \* listJobs requests each agent has issued
  jobs              \* every job claimed so far, with its processCall state

facadeVars == <<facadeClusterId, toolsRegistry, pollingAgents, lastCall, cj>>
agentVars == <<tools, clusterId, polling, retryAfter, failureCount, pc,
               startPromise, iterLog,
               stopCalled, pollsAtStop, machineReqs, listJobsReqs>>
vars == <<facadeClusterId, toolsRegistry, pollingAgents, lastCall, cj,
          tools, clusterId, polling, retryAfter, failureCount, pc,
          startPromise, iterLog,
          stopCalled, pollsAtStop, machineReqs, listJobsReqs, jobs>>

\* ------------------------------------------------------------- helpers
Range(s) == { s[i] : i \in 1..Len(s) }

SeqsUpTo(S, n) == UNION { [1..k -> S] : k \in 0..n }

\* ------------------------------------------------- AgentRPC constructor
\* the constructor throws unless the secret is sk_<clusterId>_<rand>
ConstructorAccepts(secret) ==
  /\ secret[1] = "sk"
  /\ secret[2] # ""
  /\ secret[3] # ""

\* ---------------------------------------------------- AgentRPC.register
\* this.toolsRegistry[name] is truthy
RegistryHas(registry, name) ==
  \E i \in 1..Len(registry) : registry[i].name = name

RegistryGet(registry, name) ==
  registry[CHOOSE i \in 1..Len(registry) : registry[i].name = name]

\* this.toolsRegistry[registration.name] = registration
RegistryPut(registry, reg) ==
  IF \E i \in 1..Len(registry) : registry[i].name = reg.name
  THEN [i \in 1..Len(registry) |->
          IF registry[i].name = reg.name THEN reg ELSE registry[i]]
  ELSE Append(registry, reg)

RegisterError_NoDupCheck(registry, agents, reg) ==
  IF Len(agents) > 0 THEN ErrRegisterAfterListen
  ELSE IF reg.handler \notin Handlers THEN ErrHandlerNotFunction
  ELSE NoError

RegisterError_NoListenCheck(registry, agents, reg) ==
  IF RegistryHas(registry, reg.name) THEN ErrAlreadyRegistered
  ELSE IF reg.handler \notin Handlers THEN ErrHandlerNotFunction
  ELSE NoError

\* the error register() throws for this argument in this state
RegisterError(registry, agents, reg) ==
  IF RegistryHas(registry, reg.name) THEN ErrAlreadyRegistered
  ELSE IF Len(agents) > 0 THEN ErrRegisterAfterListen
  ELSE IF reg.handler \notin Handlers THEN ErrHandlerNotFunction
  ELSE NoError

register(reg) ==
  LET err == RegisterError(toolsRegistry, pollingAgents, reg) IN
  /\ toolsRegistry' = IF err = NoError THEN RegistryPut(toolsRegistry, reg)
                      ELSE toolsRegistry
  /\ lastCall' = [op |-> "register", name |-> reg.name, error |-> err,
                  during |-> Len(pollingAgents) > 0]
  /\ UNCHANGED <<facadeClusterId, pollingAgents, cj>>
  /\ UNCHANGED agentVars
  /\ UNCHANGED jobs

\* ------------------------------------------------------ registerMachine
isZodType(schema) == schema.kind = "zod"

zodToJsonSchema(schema) == [kind |-> "json", accepts |-> schema.accepts]

JSONStringify(v) == [json |-> v]

\* one element of the tools parameter of createMachine
MachineTool(func) ==
  [name |-> func.name,
   description |-> func.description,
   schema |-> JSONStringify(IF isZodType(func.schema)
                            THEN zodToJsonSchema(func.schema)
                            ELSE func.schema),
   config |-> func.config]

\* the parameters of the createMachine request
registerMachine(ts) == [tools |-> [i \in 1..Len(ts) |-> MachineTool(ts[i])]]

\* ------------------------------------------- PollingAgent.pollIteration
ToolNames(ts) == [i \in 1..Len(ts) |-> ts[i].name]

\* the parameters of the listJobs request
ListJobsParams(a) ==
  [clusterId |-> clusterId[a], tools |-> ToolNames(tools[a]),
   status |-> "pending", acknowledge |-> TRUE, limit |-> 10, waitTime |-> 20]

\* the loop body up to its first await: the clusterId check, then the
\* listJobs request; a throw is caught by runLoop, which counts it and sleeps
pollIteration(a) ==
  IF clusterId[a] = ""
  THEN /\ failureCount' = [failureCount EXCEPT ![a] = @ + 1]
       /\ iterLog' = [iterLog EXCEPT ![a] = Append(@, "fail")]
       /\ pc' = [pc EXCEPT ![a] = "sleep"]
       /\ UNCHANGED listJobsReqs
  ELSE /\ listJobsReqs' = [listJobsReqs EXCEPT ![a] = Append(@, ListJobsParams(a))]
       /\ pc' = [pc EXCEPT ![a] = "listJobs"]
       /\ UNCHANGED <<failureCount, iterLog>>

\* the model follows an agent up to MaxPolls polls and MaxFailures failures
WithinBounds(a) ==
  /\ Len(listJobsReqs[a]) < MaxPolls
  /\ failureCount[a] < MaxFailures

\* ------------------------------------------------ AgentRPC.listen, start
\* new PollingAgent(...), pollingAgents.push(agent), agent.start() up to the
\* createMachine request
listen_NoGuard ==
  LET a == Len(pollingAgents) + 1 IN
  /\ a \in AgentIds
  /\ tools' = [tools EXCEPT ![a] = toolsRegistry]
  /\ clusterId' = [clusterId EXCEPT ![a] = facadeClusterId]
  /\ pollingAgents' = Append(pollingAgents, a)
  /\ machineReqs' = [machineReqs EXCEPT ![a] = Append(@, registerMachine(toolsRegistry))]
  /\ pc' = [pc EXCEPT ![a] = "registering"]
  /\ startPromise' = [startPromise EXCEPT ![a] = "pending"]
  /\ lastCall' = [op |-> "listen", name |-> "", error |-> NoError,
                  during |-> Len(pollingAgents) > 0]
  /\ UNCHANGED <<facadeClusterId, toolsRegistry, cj>>
  /\ UNCHANGED <<polling, retryAfter, failureCount, iterLog, stopCalled,
                 pollsAtStop, listJobsReqs>>
  /\ UNCHANGED jobs

listen ==
  IF Len(pollingAgents) > 0
  THEN /\ lastCall' = [op |-> "listen", name |-> "", error |-> ErrAlreadyListening,
                       during |-> TRUE]
       /\ UNCHANGED <<facadeClusterId, toolsRegistry, pollingAgents, cj>>
       /\ UNCHANGED agentVars
       /\ UNCHANGED jobs
  ELSE LET a == Len(pollingAgents) + 1 IN
       /\ a \in AgentIds
       /\ tools' = [tools EXCEPT ![a] = toolsRegistry]
       /\ clusterId' = [clusterId EXCEPT ![a] = facadeClusterId]
       /\ pollingAgents' = Append(pollingAgents, a)
       /\ machineReqs' = [machineReqs EXCEPT ![a] = Append(@, registerMachine(toolsRegistry))]
       /\ pc' = [pc EXCEPT ![a] = "registering"]
       /\ startPromise' = [startPromise EXCEPT ![a] = "pending"]
       /\ lastCall' = [op |-> "listen", name |-> "", error |-> NoError,
                       during |-> FALSE]
       /\ UNCHANGED <<facadeClusterId, toolsRegistry, cj>>
       /\ UNCHANGED <<polling, retryAfter, failureCount, iterLog, stopCalled,
                      pollsAtStop, listJobsReqs>>
       /\ UNCHANGED jobs

\* ------------------------------------------------ AgentRPC.unlisten, stop
stop(a, flags) == [flags EXCEPT ![a] = FALSE]

unlisten ==
  /\ polling' = [a \in AgentIds |->
                   IF a \in Range(pollingAgents) THEN stop(a, polling)[a]
                   ELSE polling[a]]
  /\ stopCalled' = [a \in AgentIds |->
                      stopCalled[a] \/ a \in Range(pollingAgents)]
  /\ pollsAtStop' = [a \in AgentIds |->
                       IF a \in Range(pollingAgents) /\ ~stopCalled[a]
                       THEN Len(listJobsReqs[a]) ELSE pollsAtStop[a]]
  /\ lastCall' = [op |-> "unlisten", name |-> "", error |-> NoError,
                  during |-> Len(pollingAgents) > 0]
  /\ UNCHANGED <<facadeClusterId, toolsRegistry, pollingAgents, cj>>
  /\ UNCHANGED <<tools, clusterId, startPromise, iterLog, retryAfter,
                 failureCount, pc, machineReqs, listJobsReqs>>
  /\ UNCHANGED jobs

\* ----------------------------------------------- the createMachine answer
StartAfterRunLoop_Awaited == "pending"

\* this.runLoop() is not awaited: start() resolves while the loop runs
StartAfterRunLoop == "resolved"

\* start() resumes: runLoop() sets polling, enters the loop and polls
CreateMachineOk(a) ==
  /\ pc[a] = "registering"
  /\ polling' = [polling EXCEPT ![a] = TRUE]
  /\ pollIteration(a)
  /\ startPromise' = [startPromise EXCEPT ![a] = StartAfterRunLoop]
  /\ UNCHANGED facadeVars
  /\ UNCHANGED <<tools, clusterId, retryAfter, stopCalled, pollsAtStop,
                 machineReqs>>
  /\ UNCHANGED jobs

CreateMachineFail_Pops(a) ==
  /\ pc[a] = "registering"
  /\ pc' = [pc EXCEPT ![a] = "startFailed"]
  /\ startPromise' = [startPromise EXCEPT ![a] = "rejected"]
  /\ pollingAgents' = SelectSeq(pollingAgents, LAMBDA b : b # a)
  /\ UNCHANGED <<facadeClusterId, toolsRegistry, lastCall, cj>>
  /\ UNCHANGED <<tools, clusterId, polling, retryAfter, failureCount, iterLog,
                 stopCalled, pollsAtStop, machineReqs, listJobsReqs>>
  /\ UNCHANGED jobs

\* the request is rejected: start() and listen() reject, no loop is spawned
CreateMachineFail(a) ==
  /\ pc[a] = "registering"
  /\ pc' = [pc EXCEPT ![a] = "startFailed"]
  /\ startPromise' = [startPromise EXCEPT ![a] = "rejected"]
  /\ UNCHANGED facadeVars
  /\ UNCHANGED <<tools, clusterId, polling, retryAfter, failureCount, iterLog,
                 stopCalled, pollsAtStop, machineReqs, listJobsReqs>>
  /\ UNCHANGED jobs

\* ---------------------------------------- leaves used by processCall
\* validateFunctionArgs: passes (yielding the parsed input) or throws
validateFunctionArgs(schema, args) ==
  IF args = schema.accepts
  THEN [ok |-> TRUE, value |-> [parsed |-> args]]
  ELSE [ok |-> FALSE,
        error |-> [kind |-> "error",
                   name |-> IF isZodType(schema) THEN "ZodError" ELSE "Error",
                   message |-> args]]

\* serializeError: name and message of an error, a generic wrapper otherwise
serializeError(e) ==
  IF e.kind = "error"
  THEN [name |-> e.name, message |-> e.message]
  ELSE [name |-> "Error", message |-> e.value]

\* executeFn: the Result of one handler invocation that returned or threw
executeFn(outcome, elapsed) ==
  IF outcome.kind = "return"
  THEN [type |-> "success", content |-> outcome.value,
        functionExecutionTime |-> elapsed]
  ELSE [type |-> "rejection", content |-> serializeError(outcome.value),
        functionExecutionTime |-> elapsed]

\* ---------------------------------------------- PollingAgent.processCall
\* this.tools.find((fn) => fn.name === call.function)
HasRegistration(ts, fn) == \E i \in 1..Len(ts) : ts[i].name = fn

FindRegistration(ts, fn) ==
  LET hits == { i \in 1..Len(ts) : ts[i].name = fn }
  IN  ts[CHOOSE i \in hits : \A k \in hits : i <= k]

IsInvalidFormat_NoNullCheck(args) ==
  \/ args \in {"undefined", "prim"}
  \/ args = "array"

\* typeof args !== "object" || Array.isArray(args) || args === null
IsInvalidFormat(args) ==
  \/ args \in {"undefined", "prim"}
  \/ args = "array"
  \/ args = "null"

onComplete_LostContent(call, cid, result) ==
  [jobId |-> call.id, clusterId |-> cid,
   result |-> [value |-> "undefined"], resultType |-> result.type,
   meta |-> [functionExecutionTime |-> result.functionExecutionTime]]

\* the parameters of the createJobResult request onComplete sends
onComplete(call, cid, result) ==
  [jobId |-> call.id, clusterId |-> cid,
   result |-> result.content, resultType |-> result.type,
   meta |-> [functionExecutionTime |-> result.functionExecutionTime]]

InvalidFormatResult ==
  [type |-> "rejection",
   content |-> serializeError([kind |-> "error", name |-> "Error",
                               message |-> InvalidFormatMessage]),
   functionExecutionTime |-> 0]

ValidationFailedResult(e) ==
  [type |-> "rejection", content |-> serializeError(e),
   functionExecutionTime |-> 0]

NoResult == [type |-> "none"]
NoOutcome == [kind |-> "none"]

\* a claimed job as processCall leaves it at its first await
\*   stage: "executing" (handler running), "posting" (createJobResult in
\*   flight), "settled"; settled: how the processCall promise ended;
\*   handlerArgs: the invocations of the handler; outcome: what the handler
\*   returned or threw; posts: the createJobResult requests sent
NewJob(call, a, iter) ==
  [id |-> call.id, agent |-> a, iter |-> iter,
   function |-> call.function, input |-> call.input,
   stage |-> "settled", settled |-> "fulfilled",
   validations |-> 0, handlerArgs |-> <<>>, outcome |-> NoOutcome,
   result |-> NoResult,
   posts |-> <<>>, delivered |-> 0]

\* the job is reported as a rejection without any handler invocation
Reject(job, a, result, validated) ==
  [job EXCEPT !.stage = "posting", !.settled = "pending",
              !.validations = validated, !.result = result,
              !.posts = <<onComplete(job, clusterId[a], result)>>]

\* validateFunctionArgs in its try block, then executeFn(handler, [args])
ValidateAndExecute(job, a, registration) ==
  LET args == job.input
      v == validateFunctionArgs(registration.schema, args)
  IN  IF ~v.ok
      THEN Reject(job, a, ValidationFailedResult(v.error), 1)
      ELSE [job EXCEPT !.stage = "executing", !.settled = "pending",
                       !.validations = 1,
                       !.handlerArgs = <<[handler |-> registration.handler,
                                          args |-> args]>>]

processCall_ReportUnknown(call, a, iter) ==
  LET job == NewJob(call, a, iter) IN
  IF ~HasRegistration(tools[a], call.function)
  THEN Reject(job, a, InvalidFormatResult, 0)
  ELSE IF IsInvalidFormat(call.input)
  THEN Reject(job, a, InvalidFormatResult, 0)
  ELSE ValidateAndExecute(job, a, FindRegistration(tools[a], call.function))

processCall(call, a, iter) ==
  LET job == NewJob(call, a, iter) IN
  IF ~HasRegistration(tools[a], call.function)
  THEN job
  ELSE IF IsInvalidFormat(call.input)
  THEN Reject(job, a, InvalidFormatResult, 0)
  ELSE ValidateAndExecute(job, a, FindRegistration(tools[a], call.function))

AfterExecute_NoPost(job, a, outcome, elapsed) ==
  [job EXCEPT !.stage = "settled", !.settled = "fulfilled",
              !.outcome = outcome, !.result = executeFn(outcome, elapsed)]

AfterExecute_Propagates(job, a, outcome, elapsed) ==
  IF outcome.kind = "throw"
  THEN [job EXCEPT !.stage = "settled", !.settled = "rejected",
                   !.outcome = outcome]
  ELSE [job EXCEPT !.stage = "posting", !.outcome = outcome,
                   !.result = executeFn(outcome, elapsed),
                   !.posts = Append(@, onComplete(job, clusterId[a],
                                                  executeFn(outcome, elapsed)))]

\* the handler of an executing job has returned or thrown: executeFn
\* resolves and processCall posts its Result
AfterExecute(job, a, outcome, elapsed) ==
  LET result == executeFn(outcome, elapsed) IN
  [job EXCEPT !.stage = "posting", !.outcome = outcome, !.result = result,
              !.posts = Append(@, onComplete(job, clusterId[a], result))]

AfterPost_Retry(job, ok) ==
  IF ok
  THEN [job EXCEPT !.stage = "settled", !.settled = "fulfilled",
                   !.delivered = @ + 1]
  ELSE [job EXCEPT !.posts = Append(@, @[Len(@)])]

\* the createJobResult request has been answered: processCall settles
AfterPost(job, ok) ==
  [job EXCEPT !.stage = "settled",
              !.settled = IF ok THEN "fulfilled" ELSE "rejected",
              !.delivered = IF ok THEN @ + 1 ELSE @]

\* ------------------------------------------------- the batch of one poll
CurrentIter(a) == Len(listJobsReqs[a])

BatchOf(js, a, iter) ==
  { i \in 1..Len(js) : js[i].agent = a /\ js[i].iter = iter }

AllSettled_Any(js, a, iter) ==
  \/ BatchOf(js, a, iter) = {}
  \/ \E i \in BatchOf(js, a, iter) : js[i].stage = "settled"

\* Promise.allSettled resolves once every processCall promise has settled
AllSettled(js, a, iter) ==
  \A i \in BatchOf(js, a, iter) : js[i].stage = "settled"

FanIn_JobFailureCounts(a, js) ==
  IF AllSettled(js, a, CurrentIter(a))
  THEN IF \E i \in BatchOf(js, a, CurrentIter(a)) : js[i].result.type = "rejection"
       THEN /\ pc' = [pc EXCEPT ![a] = "sleep"]
            /\ failureCount' = [failureCount EXCEPT ![a] = @ + 1]
            /\ iterLog' = [iterLog EXCEPT ![a] = Append(@, "fail")]
       ELSE /\ pc' = [pc EXCEPT ![a] = "sleep"]
            /\ failureCount' = [failureCount EXCEPT ![a] = 0]
            /\ iterLog' = [iterLog EXCEPT ![a] = Append(@, "ok")]
  ELSE /\ pc' = [pc EXCEPT ![a] = "batch"]
       /\ UNCHANGED <<failureCount, iterLog>>

FanIn_NoReset(a, js) ==
  IF AllSettled(js, a, CurrentIter(a))
  THEN /\ pc' = [pc EXCEPT ![a] = "sleep"]
       /\ iterLog' = [iterLog EXCEPT ![a] = Append(@, "ok")]
       /\ UNCHANGED failureCount
  ELSE /\ pc' = [pc EXCEPT ![a] = "batch"]
       /\ UNCHANGED <<failureCount, iterLog>>

\* the rest of the loop body after allSettled: the iteration succeeded, the
\* failure counter is reset and the loop goes to sleep
FanIn(a, js) ==
  IF AllSettled(js, a, CurrentIter(a))
  THEN /\ pc' = [pc EXCEPT ![a] = "sleep"]
       /\ failureCount' = [failureCount EXCEPT ![a] = 0]
       /\ iterLog' = [iterLog EXCEPT ![a] = Append(@, "ok")]
  ELSE /\ pc' = [pc EXCEPT ![a] = "batch"]
       /\ UNCHANGED <<failureCount, iterLog>>

\* job messages with the ids the coordinator gives them
Calls(batch) ==
  [i \in 1..Len(batch) |->
     [id |-> Len(jobs) + i, function |-> batch[i].function,
      input |-> batch[i].input]]

JobMessages == [function : JobFunctions, input : JobInputs]

Dispatch_LastCall(calls, a, iter) ==
  [i \in 1..Len(calls) |-> processCall(calls[Len(calls)], a, iter)]

\* pollResult.map(async (job) => { await this.processCall(job) })
Dispatch(calls, a, iter) ==
  [i \in 1..Len(calls) |-> processCall(calls[i], a, iter)]

\* listJobs answers with a batch: every job is dispatched at once
ListJobsOk(a, batch) ==
  /\ pc[a] = "listJobs"
  /\ Len(jobs) + Len(batch) <= MaxJobs
  /\ LET started == Dispatch(Calls(batch), a, CurrentIter(a))
     IN /\ jobs' = jobs \o started
        /\ FanIn(a, jobs \o started)
  /\ UNCHANGED facadeVars
  /\ UNCHANGED <<tools, clusterId, startPromise, polling, retryAfter, stopCalled,
                 pollsAtStop, machineReqs, listJobsReqs>>

ListJobsFail_Fatal(a) ==
  /\ pc[a] = "listJobs"
  /\ failureCount' = [failureCount EXCEPT ![a] = @ + 1]
  /\ iterLog' = [iterLog EXCEPT ![a] = Append(@, "fail")]
  /\ pc' = [pc EXCEPT ![a] = "stopped"]
  /\ UNCHANGED facadeVars
  /\ UNCHANGED <<tools, clusterId, startPromise, polling, retryAfter, stopCalled,
                 pollsAtStop, machineReqs, listJobsReqs>>
  /\ UNCHANGED jobs

\* the request is rejected by the transport, or its answer is not an array
\* and pollResult.map throws: runLoop catches the error and counts it
ListJobsFail(a) ==
  /\ pc[a] = "listJobs"
  /\ failureCount' = [failureCount EXCEPT ![a] = @ + 1]
  /\ iterLog' = [iterLog EXCEPT ![a] = Append(@, "fail")]
  /\ pc' = [pc EXCEPT ![a] = "sleep"]
  /\ UNCHANGED facadeVars
  /\ UNCHANGED <<tools, clusterId, startPromise, polling, retryAfter, stopCalled,
                 pollsAtStop, machineReqs, listJobsReqs>>
  /\ UNCHANGED jobs

JobStep(j, job) ==
  /\ jobs' = [jobs EXCEPT ![j] = job]
  /\ FanIn(jobs[j].agent, [jobs EXCEPT ![j] = job])
  /\ UNCHANGED facadeVars
  /\ UNCHANGED <<tools, clusterId, startPromise, polling, retryAfter, stopCalled,
                 pollsAtStop, machineReqs, listJobsReqs>>

HandlerReturn(j, value, elapsed) ==
  /\ jobs[j].stage = "executing"
  /\ JobStep(j, AfterExecute(jobs[j], jobs[j].agent,
                             [kind |-> "return", value |-> value], elapsed))

HandlerThrow(j, thrown, elapsed) ==
  /\ jobs[j].stage = "executing"
  /\ JobStep(j, AfterExecute(jobs[j], jobs[j].agent,
                             [kind |-> "throw", value |-> thrown], elapsed))

CreateJobResultOk(j) ==
  /\ jobs[j].stage = "posting"
  /\ JobStep(j, AfterPost(jobs[j], TRUE))

CreateJobResultFail(j) ==
  /\ jobs[j].stage = "posting"
  /\ JobStep(j, AfterPost(jobs[j], FALSE))

\* --------------------------------------------------- PollingAgent.runLoop
\* the sleep timer fires: while (this.polling) is evaluated
SleepDone(a) ==
  /\ pc[a] = "sleep"
  /\ IF polling[a]
     THEN /\ WithinBounds(a)
          /\ pollIteration(a)
     ELSE /\ pc' = [pc EXCEPT ![a] = "stopped"]
          /\ UNCHANGED <<failureCount, iterLog, listJobsReqs>>
  /\ UNCHANGED facadeVars
  /\ UNCHANGED <<tools, clusterId, startPromise, polling, retryAfter, stopCalled,
                 pollsAtStop, machineReqs>>
  /\ UNCHANGED jobs

\* ------------------------------------------------------------------ Spec
\* ------------------------------------ createAndPollJob, pollForJobCompletion
\* null or undefined
Null == "null"

StatusValues == {Null, "pending", "done", "failure"}

ResultValues == {Null, "", "r1"}

ResultTypeValues == {Null, "resolution", "rejection"}

\* the fields of a createJob or getJob response the helper reads
JobResponses ==
  [status : StatusValues, result : ResultValues, resultType : ResultTypeValues]

NoResponse == [status |-> Null, result |-> Null, resultType |-> Null]

\* v || d for the strings and null
OrDefault(v, d) == IF v = Null \/ v = "" THEN d ELSE v

IsTerminal_Truthy(status) == status # Null

\* the negation of the loop condition !status || !["failure", "done"].includes(status)
IsTerminal(status) == status # Null /\ status \in {"failure", "done"}

\* no createAndPollJob call has been made
NoCall ==
  [pc |-> "none", request |-> <<>>, status |-> Null, result |-> "",
   resultType |-> "rejection", gets |-> 0, create |-> NoResponse,
   last |-> NoResponse]

\* the while test of pollForJobCompletion: return, or send one more getJob
pollForJobCompletion(c) ==
  IF IsTerminal(c.status)
  THEN [c EXCEPT !.pc = "returned"]
  ELSE [c EXCEPT !.pc = "getJob", !.gets = @ + 1]

\* the model follows a call up to MaxGetJobs getJob requests
CanContinue(c) == IsTerminal(c.status) \/ c.gets < MaxGetJobs

\* createAndPollJob(client, clusterId, toolName, input) up to its createJob
\* request
createAndPollJob(toolName, input) ==
  /\ cj.pc = "none"
  /\ cj' = [cj EXCEPT !.pc = "createJob",
                      !.request = <<[tool |-> toolName, input |-> input,
                                     clusterId |-> facadeClusterId,
                                     waitTime |-> 20]>>]
  /\ UNCHANGED <<facadeClusterId, toolsRegistry, pollingAgents, lastCall>>
  /\ UNCHANGED agentVars
  /\ UNCHANGED jobs

\* createJob answers: pollForJobCompletion starts from its status, result
\* and resultType
CreateJobOk(resp) ==
  /\ cj.pc = "createJob"
  /\ LET c == [cj EXCEPT !.create = resp,
                         !.status = resp.status,
                         !.result = OrDefault(resp.result, ""),
                         !.resultType = OrDefault(resp.resultType, "rejection")]
     IN /\ CanContinue(c)
        /\ cj' = pollForJobCompletion(c)
  /\ UNCHANGED <<facadeClusterId, toolsRegistry, pollingAgents, lastCall>>
  /\ UNCHANGED agentVars
  /\ UNCHANGED jobs

\* a rejected createJob or getJob request rejects the call
RequestFail ==
  /\ cj.pc \in {"createJob", "getJob"}
  /\ cj' = [cj EXCEPT !.pc = "rejected"]
  /\ UNCHANGED <<facadeClusterId, toolsRegistry, pollingAgents, lastCall>>
  /\ UNCHANGED agentVars
  /\ UNCHANGED jobs

\* getJob answers: the three locals are overwritten, then the 1 s sleep
GetJobOk(resp) ==
  /\ cj.pc = "getJob"
  /\ cj' = [cj EXCEPT !.pc = "wait",
                      !.last = resp,
                      !.status = resp.status,
                      !.result = OrDefault(resp.result, ""),
                      !.resultType = OrDefault(resp.resultType, "rejection")]
  /\ UNCHANGED <<facadeClusterId, toolsRegistry, pollingAgents, lastCall>>
  /\ UNCHANGED agentVars
  /\ UNCHANGED jobs

\* the sleep is over: the while test again
WaitDone ==
  /\ cj.pc = "wait"
  /\ CanContinue(cj)
  /\ cj' = pollForJobCompletion(cj)
  /\ UNCHANGED <<facadeClusterId, toolsRegistry, pollingAgents, lastCall>>
  /\ UNCHANGED agentVars
  /\ UNCHANGED jobs

Init ==
  /\ \E secret \in ApiSecrets :
       /\ ConstructorAccepts(secret)
       /\ facadeClusterId = secret[2]
  /\ toolsRegistry = <<>>
  /\ pollingAgents = <<>>
  /\ lastCall = [op |-> "new", name |-> "", error |-> NoError, during |-> FALSE]
  /\ cj = NoCall
  /\ tools = [a \in AgentIds |-> <<>>]
  /\ clusterId = [a \in AgentIds |-> ""]
  /\ polling = [a \in AgentIds |-> FALSE]
  /\ retryAfter = [a \in AgentIds |-> DEFAULT_RETRY_AFTER_SECONDS]
  /\ failureCount = [a \in AgentIds |-> 0]
  /\ pc = [a \in AgentIds |-> "none"]
  /\ startPromise = [a \in AgentIds |-> "none"]
  /\ iterLog = [a \in AgentIds |-> <<>>]
  /\ stopCalled = [a \in AgentIds |-> FALSE]
  /\ pollsAtStop = [a \in AgentIds |-> 0]
  /\ machineReqs = [a \in AgentIds |-> <<>>]
  /\ listJobsReqs = [a \in AgentIds |-> <<>>]
  /\ jobs = <<>>

Next ==
  \/ \E reg \in RegInputs : register(reg)
  \/ listen
  \/ unlisten
  \/ \E a \in AgentIds : CreateMachineOk(a)
  \/ \E a \in AgentIds : CreateMachineFail(a)
  \/ \E a \in AgentIds : \E batch \in SeqsUpTo(JobMessages, MaxBatch) :
       ListJobsOk(a, batch)
  \/ \E a \in AgentIds : ListJobsFail(a)
  \/ \E j \in 1..Len(jobs) : \E v \in ReturnValues : \E t \in ElapsedTimes :
       HandlerReturn(j, v, t)
  \/ \E j \in 1..Len(jobs) : \E e \in ThrownValues : \E t \in ElapsedTimes :
       HandlerThrow(j, e, t)
  \/ \E j \in 1..Len(jobs) : CreateJobResultOk(j)
  \/ \E j \in 1..Len(jobs) : CreateJobResultFail(j)
  \/ \E a \in AgentIds : SleepDone(a)

Spec == Init /\ [][Next]_vars

\* ------------------------------------- a PollingAgent constructed directly
\* options of new PollingAgent(...): nothing checks clusterId or tools
AgentOptions ==
  [clusterId : {"", "c1"},
   tools : {<<>>} \cup { <<reg>> : reg \in {r \in RegInputs : r.handler \in Handlers} }]

\* the agent the application holds
DirectAgent == 1

InitAgent ==
  /\ \E secret \in ApiSecrets :
       /\ ConstructorAccepts(secret)
       /\ facadeClusterId = secret[2]
  /\ toolsRegistry = <<>>
  /\ pollingAgents = <<>>
  /\ lastCall = [op |-> "new", name |-> "", error |-> NoError, during |-> FALSE]
  /\ cj = NoCall
  /\ \E options \in AgentOptions :
       /\ tools = [a \in AgentIds |-> IF a = DirectAgent THEN options.tools ELSE <<>>]
       /\ clusterId = [a \in AgentIds |->
                        IF a = DirectAgent THEN options.clusterId ELSE ""]
  /\ polling = [a \in AgentIds |-> FALSE]
  /\ retryAfter = [a \in AgentIds |-> DEFAULT_RETRY_AFTER_SECONDS]
  /\ failureCount = [a \in AgentIds |-> 0]
  /\ pc = [a \in AgentIds |-> "none"]
  /\ startPromise = [a \in AgentIds |-> "none"]
  /\ iterLog = [a \in AgentIds |-> <<>>]
  /\ stopCalled = [a \in AgentIds |-> FALSE]
  /\ pollsAtStop = [a \in AgentIds |-> 0]
  /\ machineReqs = [a \in AgentIds |-> <<>>]
  /\ listJobsReqs = [a \in AgentIds |-> <<>>]
  /\ jobs = <<>>

\* agent.start() up to the createMachine request; the model follows one
\* start() per agent
start(a) ==
  /\ a = DirectAgent
  /\ pc[a] = "none"
  /\ machineReqs' = [machineReqs EXCEPT ![a] = Append(@, registerMachine(tools[a]))]
  /\ pc' = [pc EXCEPT ![a] = "registering"]
  /\ startPromise' = [startPromise EXCEPT ![a] = "pending"]
  /\ UNCHANGED facadeVars
  /\ UNCHANGED <<tools, clusterId, polling, retryAfter, failureCount, iterLog,
                 stopCalled, pollsAtStop, listJobsReqs>>
  /\ UNCHANGED jobs

\* agent.stop()
stopAgent(a) ==
  /\ a = DirectAgent
  /\ polling' = stop(a, polling)
  /\ stopCalled' = [stopCalled EXCEPT ![a] = TRUE]
  /\ pollsAtStop' = [pollsAtStop EXCEPT ![a] =
                       IF stopCalled[a] THEN @ ELSE Len(listJobsReqs[a])]
  /\ UNCHANGED facadeVars
  /\ UNCHANGED <<tools, clusterId, startPromise, iterLog, retryAfter,
                 failureCount, pc, machineReqs, listJobsReqs>>
  /\ UNCHANGED jobs

\* the coordinator answers the listJobs request one way or the other
ListJobsAnswered ==
  \E a \in AgentIds :
    \/ ListJobsFail(a)
    \/ \E batch \in SeqsUpTo(JobMessages, MaxBatch) : ListJobsOk(a, batch)

\* the handler of some executing job terminates
HandlerTerminates ==
  \E j \in 1..Len(jobs) : \E t \in ElapsedTimes :
    \/ \E v \in ReturnValues : HandlerReturn(j, v, t)
    \/ \E e \in ThrownValues : HandlerThrow(j, e, t)

\* the coordinator answers some createJobResult request
CreateJobResultAnswered ==
  \E j \in 1..Len(jobs) : CreateJobResultOk(j) \/ CreateJobResultFail(j)

NextAgent ==
  \/ \E a \in AgentIds : start(a)
  \/ \E a \in AgentIds : stopAgent(a)
  \/ \E a \in AgentIds : CreateMachineOk(a)
  \/ \E a \in AgentIds : CreateMachineFail(a)
  \/ ListJobsAnswered
  \/ HandlerTerminates
  \/ CreateJobResultAnswered
  \/ \E a \in AgentIds : SleepDone(a)

SpecAgent == InitAgent /\ [][NextAgent]_vars

\* ------------------------------------------- one createAndPollJob call
NextJob ==
  \/ \E toolName \in JobFunctions : \E input \in ObjectInputs :
       createAndPollJob(toolName, input)
  \/ \E resp \in JobResponses : CreateJobOk(resp)
  \/ RequestFail
  \/ \E resp \in JobResponses : GetJobOk(resp)
  \/ WaitDone

SpecJob == Init /\ [][NextJob]_vars

\* timers fire, requests are answered and handlers terminate
SpecAgentFair ==
  /\ InitAgent /\ [][NextAgent]_vars
  /\ WF_vars(\E a \in AgentIds : SleepDone(a))
  /\ WF_vars(ListJobsAnswered)
  /\ WF_vars(HandlerTerminates)
  /\ WF_vars(CreateJobResultAnswered)

TypeOK ==
  /\ Len(pollingAgents) <= MaxAgents
  /\ \A a \in AgentIds : pc[a] \in {"none", "registering", "startFailed",
                                    "listJobs", "batch", "sleep", "stopped"}
  /\ \A a \in AgentIds : failureCount[a] <= MaxFailures
  /\ Len(jobs) <= MaxJobs

\* ================================================================ claims
JobIds == 1..Len(jobs)

Agents == Range(pollingAgents)

\* the agent of job j has a tool registered under the job's function
Registered(j) == HasRegistration(tools[jobs[j].agent], jobs[j].function)

RegistrationOf(j) == FindRegistration(tools[jobs[j].agent], jobs[j].function)

Validation(j) == validateFunctionArgs(RegistrationOf(j).schema, jobs[j].input)

\* registered function, object input, schema validation passes
ValidInput(j) ==
  /\ Registered(j)
  /\ ~IsInvalidFormat(jobs[j].input)
  /\ Validation(j).ok

SameBatch(i, j) ==
  /\ i # j
  /\ jobs[i].agent = jobs[j].agent
  /\ jobs[i].iter = jobs[j].iter

\* start() of agent a has completed successfully
StartSucceeded(a) == pc[a] \in {"listJobs", "batch", "sleep", "stopped"}

\* C1: once stop() has been called on an agent whose start() was invoked, no
\* new listJobs request is issued: the agent has issued exactly the requests
\* it had issued when stop() was called.
C1_NoPollAfterStop ==
  \A a \in AgentIds :
    stopCalled[a] => Len(listJobsReqs[a]) = pollsAtStop[a]

\* C2: polling is true exactly when start() has completed successfully and
\* stop() has not been called since start() was invoked.
C2_PollingIffStartedAndNotStopped ==
  \A a \in AgentIds :
    polling[a] <=> (StartSucceeded(a) /\ ~stopCalled[a])

\* C3 (as stated): every job returned by listJobs gets exactly one
\* createJobResult call carrying its id: never more than one, and one once
\* its processing has finished.
C3_EveryJobPostedOnce ==
  \A j \in JobIds :
    /\ Len(jobs[j].posts) <= 1
    /\ jobs[j].stage = "settled" =>
         /\ Len(jobs[j].posts) = 1
         /\ jobs[j].posts[1].jobId = j

\* C3 (amended): every job whose function is registered with the agent gets
\* exactly one createJobResult call carrying its id, sent as soon as its
\* handler has terminated or its input was rejected; a job whose function is
\* not registered gets none.
C3_RegisteredJobPostedOnce ==
  \A j \in JobIds :
    /\ Len(jobs[j].posts) <= 1
    /\ \A k \in 1..Len(jobs[j].posts) : jobs[j].posts[k].jobId = j
    /\ (Registered(j) /\ jobs[j].stage # "executing") => Len(jobs[j].posts) = 1
    /\ ~Registered(j) => Len(jobs[j].posts) = 0

C3_Witness ==
  \E i, j \in JobIds :
    /\ Registered(i) /\ jobs[i].stage = "settled"
    /\ jobs[i].outcome.kind = "return" /\ Len(jobs[i].posts) = 1
    /\ ~Registered(j) /\ jobs[j].stage = "settled"

\* C4: a job with a registered function and an input that passes validation
\* has its handler invoked exactly once, with the job's input, and when the
\* handler returns a value the job's one createJobResult call carries
\* resultType success and that value.
C4_ValidInputSuccess ==
  \A j \in JobIds :
    ValidInput(j) =>
      /\ jobs[j].handlerArgs = <<[handler |-> RegistrationOf(j).handler,
                                  args |-> jobs[j].input]>>
      /\ jobs[j].outcome.kind = "return" =>
           /\ Len(jobs[j].posts) = 1
           /\ jobs[j].posts[1].jobId = j
           /\ jobs[j].posts[1].resultType = "success"
           /\ jobs[j].posts[1].result = jobs[j].outcome.value

C4_Witness ==
  \E j \in JobIds :
    /\ ValidInput(j)
    /\ jobs[j].outcome.kind = "return"
    /\ jobs[j].stage = "settled" /\ jobs[j].delivered = 1

\* C5: a job whose function matches no tool of the agent gets no
\* createJobResult call and no handler invocation; its processCall resolves,
\* its siblings are still reported once, and the iteration ends as a success.
C5_UnknownFunctionDropped ==
  \A j \in JobIds :
    ~Registered(j) =>
      /\ jobs[j].posts = <<>>
      /\ jobs[j].handlerArgs = <<>>
      /\ jobs[j].validations = 0
      /\ jobs[j].stage = "settled" /\ jobs[j].settled = "fulfilled"
      /\ \A i \in JobIds :
           (SameBatch(i, j) /\ Registered(i) /\ jobs[i].stage = "settled")
             => Len(jobs[i].posts) = 1
      /\ (jobs[j].iter = CurrentIter(jobs[j].agent)
          /\ AllSettled(jobs, jobs[j].agent, jobs[j].iter))
           => /\ pc[jobs[j].agent] \in {"sleep", "stopped"}
              /\ failureCount[jobs[j].agent] = 0

C5_Witness ==
  \E i, j \in JobIds :
    /\ ~Registered(j)
    /\ SameBatch(i, j) /\ Registered(i)
    /\ jobs[i].stage = "settled" /\ Len(jobs[i].posts) = 1
    /\ pc[jobs[j].agent] = "sleep"

\* C6: the handler is never invoked for a job with invalid input. A null,
\* absent, array or primitive input skips schema validation and is reported
\* once as a rejection; an object input that fails schema validation is
\* reported once as a rejection carrying the serialized validation error.
C6_InvalidInputRejected ==
  \A j \in JobIds :
    Registered(j) =>
      /\ IsInvalidFormat(jobs[j].input) =>
           /\ jobs[j].validations = 0
           /\ jobs[j].handlerArgs = <<>>
           /\ Len(jobs[j].posts) = 1
           /\ jobs[j].posts[1].jobId = j
           /\ jobs[j].posts[1].resultType = "rejection"
      /\ (jobs[j].input \in ObjectInputs /\ ~Validation(j).ok) =>
           /\ jobs[j].validations = 1
           /\ jobs[j].handlerArgs = <<>>
           /\ Len(jobs[j].posts) = 1
           /\ jobs[j].posts[1].jobId = j
           /\ jobs[j].posts[1].resultType = "rejection"
           /\ jobs[j].posts[1].result = serializeError(Validation(j).error)
      /\ jobs[j].input \in {"undefined", "null", "array", "prim"}
           => IsInvalidFormat(jobs[j].input)

C6_Witness ==
  \E i, j \in JobIds :
    /\ Registered(i) /\ jobs[i].input = "null" /\ jobs[i].stage = "settled"
    /\ Registered(j) /\ jobs[j].input \in ObjectInputs /\ ~Validation(j).ok
    /\ jobs[j].stage = "settled"

\* C7: when the handler of a job with valid input throws, the job gets
\* exactly one createJobResult call, with resultType rejection and the
\* serialized thrown value, and processCall does not reject with the thrown
\* error: it resolves once the result is delivered.
C7_HandlerThrowRejected ==
  \A j \in JobIds :
    jobs[j].outcome.kind = "throw" =>
      /\ ValidInput(j)
      /\ Len(jobs[j].posts) = 1
      /\ jobs[j].posts[1].jobId = j
      /\ jobs[j].posts[1].resultType = "rejection"
      /\ jobs[j].posts[1].result = serializeError(jobs[j].outcome.value)
      /\ jobs[j].stage = "settled" =>
           (jobs[j].settled = "fulfilled" <=> jobs[j].delivered = 1)

C7_Witness ==
  \E j \in JobIds :
    /\ jobs[j].outcome.kind = "throw"
    /\ jobs[j].outcome.value.kind = "string"
    /\ jobs[j].stage = "settled" /\ jobs[j].settled = "fulfilled"

\* what the one createJobResult call of a job must carry, from the job alone
OwnPost(j) == onComplete([id |-> j], clusterId[jobs[j].agent], jobs[j].result)

\* C8: two jobs of one batch do not interfere: whatever stage the sibling is
\* in and however it ended, a job's createJobResult calls number at most one,
\* carry its own id and its own result, and number exactly one once its own
\* handler has terminated.
C8_BatchJobsIndependent ==
  \A i, j \in JobIds :
    (SameBatch(i, j) /\ Registered(i)) =>
      /\ jobs[i].id = i
      /\ Len(jobs[i].posts) <= 1
      /\ \A k \in 1..Len(jobs[i].posts) : jobs[i].posts[k] = OwnPost(i)
      /\ jobs[i].stage # "executing" => Len(jobs[i].posts) = 1

C8_Witness ==
  \E i, j \in JobIds :
    /\ SameBatch(i, j) /\ i < j
    /\ ValidInput(i) /\ jobs[i].stage = "executing"
    /\ ValidInput(j) /\ jobs[j].stage = "settled"
    /\ jobs[j].settled = "rejected" /\ jobs[j].outcome.kind = "throw"

\* C9: a register() call for a name that is already registered throws the
\* already-registered AgentRPCError and leaves the registry as it was, and
\* no step ever alters or removes an existing registration.
C9_DuplicateRegisterRejected ==
  [][ /\ \A i \in 1..Len(toolsRegistry) :
           /\ i <= Len(toolsRegistry')
           /\ toolsRegistry'[i] = toolsRegistry[i]
      /\ ( /\ lastCall' # lastCall
           /\ lastCall'.op = "register"
           /\ RegistryHas(toolsRegistry, lastCall'.name) )
         => /\ lastCall'.error = ErrAlreadyRegistered
            /\ lastCall'.error \in ConfigErrors
            /\ toolsRegistry' = toolsRegistry
    ]_vars

C9_Witness ==
  /\ lastCall.op = "register"
  /\ lastCall.error = ErrAlreadyRegistered
  /\ RegistryHas(toolsRegistry, lastCall.name)
  /\ RegistryGet(toolsRegistry, lastCall.name).handler = "h1"
  /\ Len(pollingAgents) > 0

\* C10: once listen() has been called every register() call throws a
\* configuration error and the registry stays as it is; the tools the agent
\* sends with createMachine and names in each listJobs request are the ones
\* registered before listen(), and the agent's tools never change.
C10_ListeningState ==
  \A a \in Agents :
    /\ tools[a] = toolsRegistry
    /\ machineReqs[a] = <<registerMachine(toolsRegistry)>>
    /\ \A k \in 1..Len(listJobsReqs[a]) :
         listJobsReqs[a][k].tools = ToolNames(toolsRegistry)
    /\ lastCall.op = "register" => lastCall.error \in ConfigErrors

C10_RegistryFrozenAfterListen ==
  /\ []C10_ListeningState
  /\ [][ Len(pollingAgents) > 0 =>
           /\ toolsRegistry' = toolsRegistry
           /\ \A a \in Agents : tools'[a] = tools[a]
       ]_vars

C10_Witness ==
  /\ Len(pollingAgents) > 0
  /\ lastCall.op = "register"
  /\ lastCall.error = ErrRegisterAfterListen
  /\ \E a \in Agents : Len(listJobsReqs[a]) = 2

\* the poll loop of agent a is running
LoopRunning(a) == pc[a] \in {"listJobs", "batch", "sleep"}

\* C11: whatever register(), listen() and unlisten() calls are made on the
\* facade, it holds at most one agent, a listen() call made while it holds
\* one throws "Tools already listening", createMachine is requested at most
\* once and at most one poll loop runs.
C11_AtMostOneListening ==
  /\ Len(pollingAgents) <= 1
  /\ \A a \in AgentIds : Len(machineReqs[a]) <= 1
  /\ Cardinality({a \in AgentIds : Len(machineReqs[a]) > 0}) <= 1
  /\ Cardinality({a \in AgentIds : LoopRunning(a)}) <= 1
  /\ (lastCall.op = "listen" /\ lastCall.during) =>
       lastCall.error = ErrAlreadyListening

\* a second listen() while the first still awaits createMachine
C11_Witness ==
  /\ \E a \in Agents : pc[a] = "registering"
  /\ lastCall.op = "listen"
  /\ lastCall.during
  /\ lastCall.error = ErrAlreadyListening

\* C12: a failed createMachine request and a failed listJobs request are both
\* iteration failures: the failure is counted, the poll loop goes on with a
\* next iteration, and no createJobResult request is made for the failed call.
C12_TransportErrorIsIterationFailure ==
  \A a \in AgentIds :
    /\ startPromise[a] = "rejected" =>
         /\ failureCount[a] >= 1 \/ Len(iterLog[a]) >= 1
         /\ pc[a] \in {"listJobs", "batch", "sleep", "stopped"}
    /\ \A k \in 1..Len(iterLog[a]) :
         iterLog[a][k] = "fail" => BatchOf(jobs, a, k) = {}

\* the iterations agent a has begun
Attempts(a) ==
  Len(iterLog[a]) + (IF pc[a] \in {"listJobs", "batch"} THEN 1 ELSE 0)

\* the model follows the agent no further
BoundReached(a) == pc[a] = "sleep" /\ ~WithinBounds(a)

\* C13: a running poll loop ends, and the polling flag drops, only after a
\* stop() call; with timers firing, requests answered and handlers
\* terminating, the loop goes on from iteration to iteration - failed or
\* not - for as long as the model follows it, unless stop() is called.
C13_LoopOnlyStopsOnStop ==
  /\ [](\A a \in AgentIds :
         (pc[a] = "stopped" \/ (LoopRunning(a) /\ ~polling[a])) => stopCalled[a])
  /\ \A a \in AgentIds :
       StartSucceeded(a) ~> (stopCalled[a] \/ BoundReached(a))

\* a further attempt after a failed iteration, stop() never called
C13_Witness ==
  \E a \in AgentIds :
    /\ ~stopCalled[a]
    /\ Len(iterLog[a]) >= 1
    /\ iterLog[a][1] = "fail"
    /\ Attempts(a) = 2

\* the call has returned what the given response carries, defaults applied
ReturnedFrom(resp) ==
  /\ cj.status = resp.status
  /\ cj.result = OrDefault(resp.result, "")
  /\ cj.resultType = OrDefault(resp.resultType, "rejection")

\* C14 (as stated): createAndPollJob returns only with status done or
\* failure, and the status, result and resultType it returns are those of
\* the last getJob response.
C14_ReturnsLastGetJobResponse ==
  cj.pc = "returned" =>
    /\ cj.status \in {"done", "failure"}
    /\ cj.gets >= 1
    /\ cj.status = cj.last.status
    /\ cj.result = cj.last.result
    /\ cj.resultType = cj.last.resultType

\* what the call may return
C14_ReturnState ==
  cj.pc = "returned" =>
    /\ cj.status \in {"done", "failure"}
    /\ IF cj.gets = 0 THEN ReturnedFrom(cj.create) ELSE ReturnedFrom(cj.last)
    /\ cj.gets = 0 <=> cj.create.status \in {"done", "failure"}

\* C14 (amended): createAndPollJob returns only with status done or failure;
\* while the status is anything else, null included, every step of the call
\* after a response leads to one more getJob request, whatever their number;
\* the status returned is that of the last response received - the last
\* getJob response, or the createJob response when it was already terminal
\* and no getJob was sent - with that response's result, or "" when it has
\* none, and its resultType, or "rejection" when it has none.
C14_ReturnsLastResponse ==
  /\ []C14_ReturnState
  /\ [][ (cj.pc = "wait" /\ cj' # cj) =>
           IF cj.status \in {"done", "failure"}
           THEN cj'.pc = "returned" /\ cj'.gets = cj.gets
           ELSE cj'.pc = "getJob" /\ cj'.gets = cj.gets + 1
       ]_vars

\* returned after a null status and a third getJob whose result was missing
C14_Witness ==
  /\ cj.pc = "returned"
  /\ cj.create.status = Null
  /\ cj.gets = 3
  /\ cj.last.result = Null
  /\ cj.result = ""

\* C15: one batch is in flight per agent: while a job of an iteration has not
\* settled, the agent waits in that iteration - it neither sleeps nor sends
\* the next listJobs request - and siblings of a slow job settle meanwhile.
C15_OneBatchInFlight ==
  \A j \in JobIds :
    LET a == jobs[j].agent IN
    /\ jobs[j].iter <= CurrentIter(a)
    /\ jobs[j].iter < CurrentIter(a) => jobs[j].stage = "settled"
    /\ jobs[j].stage # "settled" =>
         /\ pc[a] = "batch"
         /\ jobs[j].iter = Len(iterLog[a]) + 1

\* a handler still running in the second poll's batch, its sibling delivered
C15_Witness ==
  \E i, j \in JobIds :
    /\ SameBatch(i, j)
    /\ jobs[i].stage = "executing"
    /\ jobs[j].stage = "settled"
    /\ jobs[j].delivered = 1
    /\ jobs[i].iter = 2
    /\ pc[jobs[i].agent] = "batch"

\* the number of "fail" entries at the end of a log of iteration outcomes
RECURSIVE TrailingFails(_)
TrailingFails(log) ==
  IF log = <<>> \/ log[Len(log)] # "fail"
  THEN 0
  ELSE 1 + TrailingFails(SubSeq(log, 1, Len(log) - 1))

\* C16: after every iteration the failure counter is the number of failed
\* iterations since the last successful one (0 right after a success), and
\* the loop ends only on stop(), whatever the counter's value.
C16_CounterIsConsecutiveFailures ==
  \A a \in AgentIds :
    /\ failureCount[a] = TrailingFails(iterLog[a])
    /\ pc[a] = "stopped" => ~polling[a] /\ stopCalled[a]

\* a failure counted, then reset by a successful iteration with one job
C16_Witness ==
  \E a \in AgentIds :
    /\ iterLog[a] = <<"fail", "ok">>
    /\ failureCount[a] = 0
    /\ BatchOf(jobs, a, 2) # {}

\* C17: the iteration of a job - unknown function, malformed input, failed
\* validation, throwing handler or not - is a successful one: once it is
\* over it is logged as a success with the failure counter at 0, and the
\* loop ends only on stop().
C17_JobOutcomesAreNotIterationFailures ==
  \A j \in JobIds :
    LET a == jobs[j].agent
        k == jobs[j].iter
    IN  /\ Len(iterLog[a]) >= k => iterLog[a][k] = "ok"
        /\ (Len(iterLog[a]) = k /\ pc[a] = "sleep") => failureCount[a] = 0
        /\ pc[a] = "stopped" => stopCalled[a]

\* a throwing handler and a failed validation in one batch, counted as a
\* success after one failed poll
C17_Witness ==
  \E i, j \in JobIds :
    /\ SameBatch(i, j)
    /\ jobs[i].stage = "settled" /\ jobs[i].outcome.kind = "throw"
    /\ jobs[j].stage = "settled" /\ jobs[j].validations = 1
    /\ jobs[j].handlerArgs = <<>>
    /\ iterLog[jobs[i].agent] = <<"fail", "ok">>
    /\ failureCount[jobs[i].agent] = 0

\* C18: an agent whose start() was called has sent exactly one createMachine
\* request; it has sent no listJobs request unless that request succeeded;
\* start() is pending during registration, rejected when it failed, and
\* resolved from the moment the loop is spawned, while the loop runs.
C18_StartRegistersOnceThenSpawns ==
  \A a \in AgentIds :
    /\ Len(machineReqs[a]) = (IF pc[a] = "none" THEN 0 ELSE 1)
    /\ Len(listJobsReqs[a]) > 0 => StartSucceeded(a)
    /\ pc[a] = "registering" => startPromise[a] = "pending" /\ ~polling[a]
    /\ pc[a] = "startFailed" => startPromise[a] = "rejected" /\ ~polling[a]
    /\ StartSucceeded(a) <=> startPromise[a] = "resolved"

\* start() has returned and the loop is in its second iteration
C18_Witness ==
  \E a \in Agents :
    /\ startPromise[a] = "resolved"
    /\ pc[a] = "batch"
    /\ polling[a]
    /\ Len(listJobsReqs[a]) = 2

\* C19: the facade's agent list holds every agent whose start() was ever
\* called - whether registration is pending, failed, the loop runs or has
\* been stopped - and never more than one; a register() or listen() call
\* made while the list is non-empty throws a configuration error, and the
\* list is still non-empty afterwards.
C19_ListeningGuardIsPermanent ==
  /\ Len(pollingAgents) <= 1
  /\ \A a \in AgentIds : pc[a] # "none" <=> a \in Agents
  /\ lastCall.during => Len(pollingAgents) = 1
  /\ (lastCall.during /\ lastCall.op \in {"register", "listen"}) =>
       /\ lastCall.error \in ConfigErrors
       /\ lastCall.error # NoError

\* listen() refused after the first listen() failed in createMachine and
\* unlisten() was called
C19_Witness ==
  /\ \E a \in Agents : pc[a] = "startFailed" /\ stopCalled[a]
  /\ lastCall.op = "listen"
  /\ lastCall.error = ErrAlreadyListening

\* C20: a job whose createJobResult request failed has had that one request
\* and no delivered result; its siblings post all the same; its iteration is
\* logged as a success with the counter at 0; and an iteration is logged as
\* failed only when the clusterId is missing or its listJobs answer failed,
\* so that it has no job.
C20_FailedPostIsContained ==
  /\ \A j \in JobIds :
       LET a == jobs[j].agent
           k == jobs[j].iter
       IN  /\ Len(jobs[j].posts) <= 1
           /\ jobs[j].delivered <= Len(jobs[j].posts)
           /\ jobs[j].settled = "rejected" =>
                /\ jobs[j].stage = "settled"
                /\ Len(jobs[j].posts) = 1
                /\ jobs[j].delivered = 0
                /\ Len(iterLog[a]) >= k => iterLog[a][k] = "ok"
                /\ (Len(iterLog[a]) = k /\ pc[a] = "sleep") => failureCount[a] = 0
                /\ \A i \in JobIds :
                     (SameBatch(i, j) /\ Registered(i) /\ jobs[i].stage # "executing")
                       => Len(jobs[i].posts) = 1
  /\ \A a \in AgentIds : \A k \in 1..Len(iterLog[a]) :
       iterLog[a][k] = "fail" => (clusterId[a] = "" \/ BatchOf(jobs, a, k) = {})

\* one post lost, the sibling's result delivered, the iteration a success
C20_Witness ==
  \E i, j \in JobIds :
    /\ SameBatch(i, j)
    /\ jobs[j].settled = "rejected"
    /\ jobs[i].stage = "settled" /\ jobs[i].delivered = 1
    /\ iterLog[jobs[j].agent] = <<"fail", "ok">>
    /\ failureCount[jobs[j].agent] = 0

====
